---- MODULE Spec2Model ----
(***************************************************************************)
(* Learning-rate schedulers of python/paddle/fluid/dygraph/                *)
(* learning_rate_scheduler.py as a state machine.                          *)
(*                                                                         *)
(* A scheduler object is a record holding the fields of the Python object  *)
(* (self.__dict__); `sched` is the object the training loop owns.  Numbers *)
(* are exact rationals <<n, d>> (d > 0, lowest terms).  A Python value is  *)
(* a record [k, n, v, rt]: k is its type ("none", "int", "float", or "var" *)
(* for a framework Variable), n the number of elements, v the number, and  *)
(* rt = 2 when v holds the square of the number (NoamDecay's rate is a     *)
(* square root, kept exactly by its square).                               *)
(***************************************************************************)
EXTENDS Integers, Sequences, FiniteSets, TLC

VARIABLES sched,   \* the scheduler object (its __dict__), or NoObj
          ctor,    \* the arguments the scheduler was constructed with
          exc,     \* the exception the last operation raised, or "none"
          ret,     \* the value the last operation returned
          op,      \* the last operation and its input (history variable)
          run,     \* consecutive non-improving step(loss) calls seen so far
          ncalls,  \* successful __call__() of a step-indexed scheduler, or
                   \* successful step(loss) of a ReduceLROnPlateau, so far
          events,  \* the values of ncalls at the reduction events so far
          saved,   \* the last mapping state_dict() returned
          warned   \* whether the last operation emitted a warning

vars == <<sched, ctor, exc, ret, op, run, ncalls, events, saved, warned>>

-----------------------------------------------------------------------------
(* Bounds of the model.                                                    *)
MaxEpoch == 5
MaxCalls == 4
MaxPatience == 1
MaxCooldown == 2
MaxCkptEpoch == 3
Horizon == 2

-----------------------------------------------------------------------------
(* Exact rational arithmetic.                                              *)
Abs(x) == IF x < 0 THEN -x ELSE x

RECURSIVE GCD(_, _)
GCD(a, b) == IF b = 0 THEN a ELSE GCD(b, a % b)

Rat(n, d) ==
    LET g == GCD(Abs(n), Abs(d))
        s == IF d < 0 THEN -1 ELSE 1
    IN  <<(s * n) \div g, (s * d) \div g>>

Zero == <<0, 1>>
One  == <<1, 1>>
Half == <<1, 2>>
Quarter == <<1, 4>>
Two  == <<2, 1>>
OfInt(i) == <<i, 1>>

RAdd(a, b) == Rat(a[1] * b[2] + b[1] * a[2], a[2] * b[2])
RSub(a, b) == Rat(a[1] * b[2] - b[1] * a[2], a[2] * b[2])
RMul(a, b) == Rat(a[1] * b[1], a[2] * b[2])
RDiv(a, b) == Rat(a[1] * b[2], a[2] * b[1])
RLt(a, b)  == a[1] * b[2] < b[1] * a[2]
RLe(a, b)  == a[1] * b[2] <= b[1] * a[2]
RMax(a, b) == IF RLt(a, b) THEN b ELSE a
RMin(a, b) == IF RLt(b, a) THEN b ELSE a
RCeil(a)   == -((-a[1]) \div a[2])

RECURSIVE RPow(_, _)
RPow(a, k) ==
    IF k = 0 THEN One
    ELSE IF k < 0 THEN RDiv(One, RPow(a, -k))
    ELSE RMul(a, RPow(a, k - 1))

-----------------------------------------------------------------------------
(* Python values.                                                          *)
None     == [k |-> "none",  n |-> 0, v |-> Zero, rt |-> 1]
PyInt(r)   == [k |-> "int",   n |-> 1, v |-> r, rt |-> 1]
PyFloat(r) == [k |-> "float", n |-> 1, v |-> r, rt |-> 1]
Variable(r, numel) == [k |-> "var", n |-> numel, v |-> r, rt |-> 1]

NoObj == [cls |-> "None"]

(* create_lr_var: a number becomes a one-element Variable holding float(lr) *)
create_lr_var(lr) == [k |-> "var", n |-> 1, v |-> lr.v, rt |-> lr.rt]

(* Variable.item(): the Python number a one-element Variable holds          *)
item(value) == [k |-> "float", n |-> 1, v |-> value.v, rt |-> value.rt]

(* str.lower() on the strings the constructors receive                     *)
lower(s) ==
    CASE s = "MAX" -> "max"
      [] s = "Abs" -> "abs"
      [] OTHER -> s

-----------------------------------------------------------------------------
(* Arithmetic of the host framework on one-element values: the result of   *)
(* an operation with a Variable operand is a Variable.                     *)
ResultKind(a, b) ==
    IF a.k = "var" \/ b.k = "var" THEN "var"
    ELSE IF a.k = "float" \/ b.k = "float" THEN "float" ELSE "int"

mul(a, b) == [k |-> ResultKind(a, b), n |-> 1, v |-> RMul(a.v, b.v), rt |-> 1]
sub(a, b) == [k |-> ResultKind(a, b), n |-> 1, v |-> RSub(a.v, b.v), rt |-> 1]
maximum(a, b) == [k |-> "var", n |-> 1, v |-> RMax(a.v, b.v), rt |-> 1]

-----------------------------------------------------------------------------
(* class LearningRateDecay                                                 *)

(* LearningRateDecay.__init__ *)
LearningRateDecay_init(begin, step) == [step_num |-> begin, step_size |-> step]

-----------------------------------------------------------------------------
(* class PolynomialDecay                                                   *)

(* PolynomialDecay.__init__ *)
PolynomialDecay_init(a) ==
    LET base == LearningRateDecay_init(a.begin, a.step) IN
    [exc |-> "none",
     self |-> [cls |-> "PolynomialDecay",
               step_num |-> base.step_num,
               step_size |-> base.step_size,
               learning_rate |-> a.learning_rate,
               decay_steps |-> a.decay_steps,
               end_learning_rate |-> a.end_learning_rate,
               power |-> a.power,
               cycle |-> a.cycle]]

(* PolynomialDecay.step that does not hold step_num at decay_steps (no min *)
(* at line 220).                                                           *)
PolynomialDecay_step_unclamped(self) ==
    LET div_res == IF self.step_num = 0 THEN 1
                   ELSE RCeil(Rat(self.step_num, self.decay_steps))
        tmp_decay_steps == IF self.cycle THEN self.decay_steps * div_res
                           ELSE self.decay_steps
        factor == RPow(RSub(One, Rat(self.step_num, tmp_decay_steps)),
                       self.power)
    IN  [k |-> "var", n |-> 1, rt |-> 1,
         v |-> RAdd(RMul(RSub(self.learning_rate.v, self.end_learning_rate),
                         factor),
                    self.end_learning_rate)]

(* PolynomialDecay.step that never stretches the horizon (div_res held at  *)
(* 1, lines 209-218 left out).                                             *)
PolynomialDecay_step_one_cycle(self) ==
    LET tmp_step_num == IF self.cycle THEN self.step_num
                        ELSE IF self.step_num < self.decay_steps
                               THEN self.step_num ELSE self.decay_steps
        factor == RPow(RSub(One, Rat(tmp_step_num, self.decay_steps)),
                       self.power)
    IN  [k |-> "var", n |-> 1, rt |-> 1,
         v |-> RAdd(RMul(RSub(self.learning_rate.v, self.end_learning_rate),
                         factor),
                    self.end_learning_rate)]

(* PolynomialDecay.step: the decayed rate, a Variable.                     *)
PolynomialDecay_step(self) ==
    LET div_res == IF self.step_num = 0 THEN 1
                   ELSE RCeil(Rat(self.step_num, self.decay_steps))
        tmp_decay_steps == IF self.cycle THEN self.decay_steps * div_res
                           ELSE self.decay_steps
        tmp_step_num == IF self.cycle THEN self.step_num
                        ELSE IF self.step_num < self.decay_steps
                               THEN self.step_num ELSE self.decay_steps
        factor == RPow(RSub(One, Rat(tmp_step_num, tmp_decay_steps)), self.power)
    IN  [k |-> "var", n |-> 1, rt |-> 1,
         v |-> RAdd(RMul(RSub(self.learning_rate.v, self.end_learning_rate),
                         factor),
                    self.end_learning_rate)]

-----------------------------------------------------------------------------
(* class NoamDecay                                                         *)

(* NoamDecay.__init__ *)
NoamDecay_init(a) ==
    LET base == LearningRateDecay_init(a.begin, a.step) IN
    [exc |-> "none",
     self |-> [cls |-> "NoamDecay",
               step_num |-> base.step_num,
               step_size |-> base.step_size,
               learning_rate |-> a.learning_rate,
               d_model |-> a.d_model,
               warmup_steps |-> a.warmup_steps]]

(* NoamDecay.step for step_num > 0: the rate, a Variable, held by its      *)
(* square: a^2 = 1/step_num, b^2 = step_num^2 / warmup_steps^3, and the    *)
(* rate squared is learning_rate^2 / d_model * min(a^2, b^2).              *)
NoamDecay_step(self) ==
    LET a2 == Rat(1, self.step_num)
        b2 == Rat(self.step_num * self.step_num,
                  self.warmup_steps * self.warmup_steps * self.warmup_steps)
        lr2 == RMul(self.learning_rate.v, self.learning_rate.v)
    IN  [k |-> "var", n |-> 1, rt |-> 2,
         v |-> RMul(RMul(lr2, Rat(1, self.d_model)), RMin(a2, b2))]

-----------------------------------------------------------------------------
(* class LinearLrWarmup                                                    *)

(* isinstance(x, LearningRateDecay): a scheduler object has a class.       *)
IsScheduler(x) == "cls" \in DOMAIN x

(* LinearLrWarmup.__init__: the type check of lines 369-379, the assert of *)
(* lines 383-385 and the division of lines 386-388.                        *)
LinearLrWarmup_init(a) ==
    LET base == LearningRateDecay_init(a.begin, a.step)
        type_check == IsScheduler(a.learning_rate)
                      \/ a.learning_rate.k \in {"float", "int"}
    IN  IF ~type_check
          THEN [exc |-> "TypeError", self |-> NoObj]
        ELSE IF ~RLt(a.start_lr, a.end_lr)
          THEN [exc |-> "AssertionError", self |-> NoObj]
        ELSE IF a.warmup_steps = 0
          THEN [exc |-> "ZeroDivisionError", self |-> NoObj]
        ELSE [exc |-> "none",
              self |-> [cls |-> "LinearLrWarmup",
                        step_num |-> base.step_num,
                        step_size |-> base.step_size,
                        learning_rate |-> a.learning_rate,
                        warmup_steps |-> a.warmup_steps,
                        start_lr |-> a.start_lr,
                        lr_ratio_before_warmup |->
                          RDiv(RSub(a.end_lr, a.start_lr),
                               OfInt(a.warmup_steps))]]

-----------------------------------------------------------------------------
(* class ReduceLROnPlateau                                                 *)

(* __init__ that lets decay_rate = 1.0 through (> for >= at line 503).     *)
ReduceLROnPlateau_init_accepts_one(a) ==
    LET base == LearningRateDecay_init(0, 1)
        mode == lower(a.mode)
        threshold_mode == lower(a.threshold_mode)
    IN  IF mode \notin {"min", "max"}
          THEN [exc |-> "ValueError", self |-> NoObj]
        ELSE IF RLt(One, a.decay_rate)
          THEN [exc |-> "ValueError", self |-> NoObj]
        ELSE IF threshold_mode \notin {"rel", "abs"}
          THEN [exc |-> "ValueError", self |-> NoObj]
        ELSE [exc |-> "none",
              self |-> [cls |-> "ReduceLROnPlateau",
                        step_num |-> base.step_num,
                        step_size |-> base.step_size,
                        mode |-> mode,
                        decay_rate |-> create_lr_var(PyFloat(a.decay_rate)),
                        threshold_mode |-> threshold_mode,
                        learning_rate |-> a.learning_rate,
                        patience |-> a.patience,
                        threshold |-> a.threshold,
                        cooldown |-> a.cooldown,
                        min_lr |-> create_lr_var(PyFloat(a.min_lr)),
                        eps |-> a.eps,
                        cooldown_counter |-> 0,
                        best_loss |-> None,
                        num_bad_epochs |-> 0,
                        epoch_num |-> 0]]

(* ReduceLROnPlateau.__init__: the object, or the exception it raises.     *)
ReduceLROnPlateau_init(a) ==
    LET base == LearningRateDecay_init(0, 1)
        mode == lower(a.mode)
        threshold_mode == lower(a.threshold_mode)
    IN  IF mode \notin {"min", "max"}
          THEN [exc |-> "ValueError", self |-> NoObj]
        ELSE IF RLe(One, a.decay_rate)
          THEN [exc |-> "ValueError", self |-> NoObj]
        ELSE IF threshold_mode \notin {"rel", "abs"}
          THEN [exc |-> "ValueError", self |-> NoObj]
        ELSE [exc |-> "none",
              self |-> [cls |-> "ReduceLROnPlateau",
                        step_num |-> base.step_num,
                        step_size |-> base.step_size,
                        mode |-> mode,
                        decay_rate |-> create_lr_var(PyFloat(a.decay_rate)),
                        threshold_mode |-> threshold_mode,
                        learning_rate |-> a.learning_rate,
                        patience |-> a.patience,
                        threshold |-> a.threshold,
                        cooldown |-> a.cooldown,
                        min_lr |-> create_lr_var(PyFloat(a.min_lr)),
                        eps |-> a.eps,
                        cooldown_counter |-> 0,
                        best_loss |-> None,
                        num_bad_epochs |-> 0,
                        epoch_num |-> 0]]

(* ReduceLROnPlateau._is_better *)
is_better(self, current, best) ==
    LET thr == self.threshold IN
    IF self.mode = "min" /\ self.threshold_mode = "rel"
      THEN RLt(current.v, RSub(best.v, RMul(best.v, thr)))
    ELSE IF self.mode = "min" /\ self.threshold_mode = "abs"
      THEN RLt(current.v, RSub(best.v, thr))
    ELSE IF self.mode = "max" /\ self.threshold_mode = "rel"
      THEN RLt(RAdd(best.v, RMul(best.v, thr)), current.v)
    ELSE RLt(RAdd(best.v, thr), current.v)

(* The test of line 586: the loss is recorded as the new best.             *)
Improves(self, loss) ==
    self.best_loss.k = "none" \/ is_better(self, loss, self.best_loss)

(* Reduce with the floor applied the wrong way round (minimum for maximum). *)
Reduce_minimum(self) ==
    LET s == [self EXCEPT !.cooldown_counter = self.cooldown,
                          !.num_bad_epochs = 0]
        cand == mul(self.learning_rate, self.decay_rate)
        new_lr == [cand EXCEPT !.k = "var", !.v = RMin(cand.v, self.min_lr.v)]
    IN  IF RLt(self.eps, sub(self.learning_rate, new_lr).v)
          THEN [s EXCEPT !.learning_rate = new_lr]
          ELSE s

(* Reduce that starts the cooldown only when it commits a new rate.        *)
Reduce_resets_on_commit(self) ==
    LET s == [self EXCEPT !.cooldown_counter = self.cooldown,
                          !.num_bad_epochs = 0]
        new_lr == maximum(mul(self.learning_rate, self.decay_rate), self.min_lr)
    IN  IF RLt(self.eps, sub(self.learning_rate, new_lr).v)
          THEN [s EXCEPT !.learning_rate = new_lr]
          ELSE self

(* Reduce that leaves num_bad_epochs as it is (line 594 left out).         *)
Reduce_keeps_count(self) ==
    LET s == [self EXCEPT !.cooldown_counter = self.cooldown]
        new_lr == maximum(mul(self.learning_rate, self.decay_rate), self.min_lr)
    IN  IF RLt(self.eps, sub(self.learning_rate, new_lr).v)
          THEN [s EXCEPT !.learning_rate = new_lr]
          ELSE s

(* Reduce that does not start the cooldown (line 593 left out).            *)
Reduce_without_cooldown(self) ==
    LET s == [self EXCEPT !.num_bad_epochs = 0]
        new_lr == maximum(mul(self.learning_rate, self.decay_rate), self.min_lr)
    IN  IF RLt(self.eps, sub(self.learning_rate, new_lr).v)
          THEN [s EXCEPT !.learning_rate = new_lr]
          ELSE s

(* Reduce that commits the new rate whatever eps is (no test at line 598). *)
Reduce_always_commits(self) ==
    [self EXCEPT !.cooldown_counter = self.cooldown,
                 !.num_bad_epochs = 0,
                 !.learning_rate =
                   maximum(mul(self.learning_rate, self.decay_rate),
                           self.min_lr)]

(* The reduction of lines 593-607, taken when num_bad_epochs > patience.   *)
Reduce(self) ==
    LET s == [self EXCEPT !.cooldown_counter = self.cooldown,
                          !.num_bad_epochs = 0]
        new_lr == maximum(mul(self.learning_rate, self.decay_rate), self.min_lr)
    IN  IF RLt(self.eps, sub(self.learning_rate, new_lr).v)
          THEN [s EXCEPT !.learning_rate = new_lr]
          ELSE s

(* Lines 586-590: the comparison made outside cooldown.                    *)
Compare(self, loss) ==
    IF Improves(self, loss)
      THEN [self EXCEPT !.best_loss = loss, !.num_bad_epochs = 0]
      ELSE [self EXCEPT !.num_bad_epochs = @ + 1]

(* step(loss) that still compares the loss while cooling down.             *)
Plateau_step_compares_in_cooldown(self, loss) ==
    LET s1 == [self EXCEPT !.epoch_num = @ + 1,
                           !.cooldown_counter = IF @ > 0 THEN @ - 1 ELSE @]
        s2 == Compare(s1, loss)
    IN  IF self.cooldown_counter = 0 /\ s2.num_bad_epochs > s2.patience
          THEN Reduce(s2) ELSE s2

(* step(loss) that reduces one epoch early (>= for > at line 592).         *)
Plateau_step_early(self, loss) ==
    LET s1 == [self EXCEPT !.epoch_num = @ + 1] IN
    IF s1.cooldown_counter > 0
      THEN [s1 EXCEPT !.cooldown_counter = @ - 1]
      ELSE LET s2 == Compare(s1, loss) IN
           IF s2.num_bad_epochs >= s2.patience /\ s2.num_bad_epochs > 0
             THEN Reduce(s2) ELSE s2

(* step(loss) that also raises step_num, as LearningRateDecay.__call__     *)
(* does.                                                                   *)
Plateau_step_counts_steps(self, loss) ==
    LET s1 == [self EXCEPT !.epoch_num = @ + 1,
                           !.step_num = @ + self.step_size] IN
    IF s1.cooldown_counter > 0
      THEN [s1 EXCEPT !.cooldown_counter = @ - 1]
      ELSE LET s2 == Compare(s1, loss) IN
           IF s2.num_bad_epochs > s2.patience THEN Reduce(s2) ELSE s2

(* ReduceLROnPlateau.step(loss), lines 582-607, for a one-element loss.    *)
Plateau_step(self, loss) ==
    LET s1 == [self EXCEPT !.epoch_num = @ + 1] IN
    IF s1.cooldown_counter > 0
      THEN [s1 EXCEPT !.cooldown_counter = @ - 1]
      ELSE LET s2 == Compare(s1, loss) IN
           IF s2.num_bad_epochs > s2.patience THEN Reduce(s2) ELSE s2

(* Whether step(loss) takes the branch of line 592 (a reduction event).    *)
ReductionEvent(self, loss) ==
    /\ self.cooldown_counter = 0
    /\ Compare(self, loss).num_bad_epochs > self.patience

(* A read that advances the step counter as LearningRateDecay.__call__     *)
(* does.                                                                   *)
Plateau_call_advances(self) ==
    [self EXCEPT !.learning_rate = create_lr_var(self.learning_rate),
                 !.step_num = @ + self.step_size]

(* ReduceLROnPlateau.__call__: the object after the read.                  *)
Plateau_call(self) ==
    IF self.learning_rate.k # "var"
      THEN [self EXCEPT !.learning_rate = create_lr_var(self.learning_rate)]
      ELSE self

(* step(loss) that counts the epoch before it checks the shape.            *)
ReduceLROnPlateau_step_counts_first(self, loss) ==
    IF loss.n # 1
      THEN [exc |-> "AssertionError",
            self |-> [self EXCEPT !.epoch_num = @ + 1]]
      ELSE [exc |-> "none", self |-> Plateau_step(self, loss)]

(* ReduceLROnPlateau.step(loss): the shape check of lines 574-580, then    *)
(* the update.  The object and the exception raised.                       *)
ReduceLROnPlateau_step(self, loss) ==
    IF loss.n # 1
      THEN [exc |-> "AssertionError", self |-> self]
      ELSE [exc |-> "none", self |-> Plateau_step(self, loss)]

-----------------------------------------------------------------------------
(* class _LearningRateEpochDecay, through a subclass that decays the rate  *)
(* by a constant factor each epoch.                                        *)

(* get_lr of the subclass: base_lr * decay_rate ** epoch_num, a float.     *)
get_lr(self) ==
    PyFloat(RMul(self.base_lr, RPow(self.decay_rate, self.epoch_num)))

(* epoch() that computes the rate before it moves epoch_num.               *)
LearningRateEpochDecay_epoch_rate_first(self, epoch) ==
    [self EXCEPT !.learning_rate = get_lr(self),
                 !.epoch_num = IF epoch.k = "none" THEN @ + 1
                               ELSE epoch.v[1]]

(* _LearningRateEpochDecay.epoch(epoch=None), lines 666-675: epoch is None *)
(* or an int.                                                              *)
LearningRateEpochDecay_epoch(self, epoch) ==
    LET s == [self EXCEPT !.epoch_num = IF epoch.k = "none" THEN @ + 1
                                        ELSE epoch.v[1]]
    IN  [s EXCEPT !.learning_rate = get_lr(s)]

(* _LearningRateEpochDecay.__init__, lines 634-651; the subclass has       *)
(* stored its decay_rate before it calls it.                               *)
LearningRateEpochDecay_init(a) ==
    IF a.learning_rate.k \notin {"float", "int"}
      THEN [exc |-> "TypeError", self |-> NoObj]
    ELSE IF RLt(a.learning_rate.v, Zero)
      THEN [exc |-> "ValueError", self |-> NoObj]
    ELSE [exc |-> "none",
          self |-> LearningRateEpochDecay_epoch(
                     [cls |-> "EpochDecay",
                      decay_rate |-> a.decay_rate,
                      base_lr |-> a.learning_rate.v,
                      epoch_num |-> -1,
                      learning_rate |->
                        create_lr_var(PyFloat(a.learning_rate.v))],
                     None)]

(* _LearningRateEpochDecay.__call__, lines 658-664: the object after the   *)
(* read; the value returned is its learning_rate.                          *)
LearningRateEpochDecay_call(self) ==
    IF self.learning_rate.k # "var"
      THEN [self EXCEPT !.learning_rate = create_lr_var(self.learning_rate)]
      ELSE self

-----------------------------------------------------------------------------------------------------------------------------------------------------
(* Calling a scheduler.  Each operator gives the exception raised, the     *)
(* value returned and the object afterwards.                               *)
RECURSIVE call(_), step(_), LearningRateDecay_call(_), LinearLrWarmup_step(_)

(* LinearLrWarmup.step that invokes the wrapped scheduler only once the    *)
(* warmup is over.                                                         *)
LinearLrWarmup_step_lazy(self) ==
    IF self.step_num < self.warmup_steps
      THEN [exc |-> "none", self |-> self,
            val |-> PyFloat(RAdd(RMul(self.lr_ratio_before_warmup,
                                      OfInt(self.step_num)),
                                 self.start_lr))]
      ELSE IF IsScheduler(self.learning_rate)
        THEN LET b == call(self.learning_rate) IN
             [exc |-> b.exc, val |-> b.val,
              self |-> [self EXCEPT !.learning_rate = b.self]]
        ELSE [exc |-> "none", val |-> self.learning_rate, self |-> self]

(* LinearLrWarmup.step whose ramp still applies at step_num = warmup_steps *)
(* (<= for < at line 397).                                                 *)
LinearLrWarmup_step_ramp_at_end(self) ==
    LET b == IF IsScheduler(self.learning_rate)
               THEN call(self.learning_rate)
               ELSE [exc |-> "none", val |-> self.learning_rate,
                     self |-> self.learning_rate]
    IN  IF b.exc # "none"
          THEN [exc |-> b.exc, val |-> None, self |-> self]
        ELSE [exc |-> "none",
              self |-> [self EXCEPT !.learning_rate = b.self],
              val |-> IF self.step_num <= self.warmup_steps
                        THEN PyFloat(RAdd(RMul(self.lr_ratio_before_warmup,
                                               OfInt(self.step_num)),
                                          self.start_lr))
                        ELSE b.val]

(* LinearLrWarmup.step, lines 390-400: the wrapped scheduler is called     *)
(* first (line 393), then the branch on step_num is taken.                 *)
LinearLrWarmup_step(self) ==
    LET b == IF IsScheduler(self.learning_rate)
               THEN call(self.learning_rate)
               ELSE [exc |-> "none", val |-> self.learning_rate,
                     self |-> self.learning_rate]
    IN  IF b.exc # "none"
          THEN [exc |-> b.exc, val |-> None, self |-> self]
        ELSE [exc |-> "none",
              self |-> [self EXCEPT !.learning_rate = b.self],
              val |-> IF self.step_num < self.warmup_steps
                        THEN PyFloat(RAdd(RMul(self.lr_ratio_before_warmup,
                                               OfInt(self.step_num)),
                                          self.start_lr))
                        ELSE b.val]

(* self.step() of a step-indexed scheduler.  0 ** -0.5 raises in           *)
(* NoamDecay.step (line 294).                                              *)
step(self) ==
    CASE self.cls = "PolynomialDecay" ->
           [exc |-> "none", val |-> PolynomialDecay_step(self), self |-> self]
      [] self.cls = "NoamDecay" ->
           IF self.step_num = 0
             THEN [exc |-> "ZeroDivisionError", val |-> None, self |-> self]
             ELSE [exc |-> "none", val |-> NoamDecay_step(self), self |-> self]
      [] self.cls = "LinearLrWarmup" -> LinearLrWarmup_step(self)
      [] OTHER -> [exc |-> "NotImplementedError", val |-> None, self |-> self]

(* __call__ that raises step_num before it computes the rate.              *)
LearningRateDecay_call_counts_first(self) ==
    LET r == step([self EXCEPT !.step_num = @ + self.step_size]) IN
    IF r.exc # "none"
      THEN [exc |-> r.exc, val |-> None, self |-> self]
      ELSE [exc |-> "none", self |-> r.self,
            val |-> IF r.val.k = "float" THEN create_lr_var(r.val) ELSE r.val]

(* LearningRateDecay.__call__, lines 46-51 *)
LearningRateDecay_call(self) ==
    LET r == step(self) IN
    IF r.exc # "none"
      THEN [exc |-> r.exc, val |-> None, self |-> self]
      ELSE [exc |-> "none",
            val |-> IF r.val.k = "float" THEN create_lr_var(r.val) ELSE r.val,
            self |-> [r.self EXCEPT !.step_num = @ + self.step_size]]

(* scheduler(): ReduceLROnPlateau overrides __call__.                      *)
call(self) ==
    IF self.cls = "ReduceLROnPlateau"
      THEN LET s == Plateau_call(self) IN
           [exc |-> "none", val |-> s.learning_rate, self |-> s]
      ELSE LearningRateDecay_call(self)

-----------------------------------------------------------------------------
(* Saving and loading the state.                                           *)

(* _state_keys: the keys a class declares, in the order of its list.  The  *)
(* scratch attribute self.keys the list is stored in is not modelled.      *)
state_keys(self) ==
    IF self.cls = "ReduceLROnPlateau"
      THEN <<"cooldown_counter", "best_loss", "num_bad_epochs", "epoch_num",
             "learning_rate">>
      ELSE <<"step_num">>

KeySet(self) == {state_keys(self)[i] : i \in 1 .. Len(state_keys(self))}

(* The declared keys whose values are Python values or Variables; the      *)
(* others are counters, plain integers.                                    *)
ValueKeys == {"best_loss", "learning_rate"}

IsVariable(self, key) == key \in ValueKeys /\ self[key].k = "var"

(* state_dict that leaves out the entries that are None.                   *)
state_dict_skips_none(self) ==
    LET present == {key \in KeySet(self) \cap DOMAIN self :
                      ~(key \in ValueKeys /\ self[key].k = "none")}
    IN  [exc |-> "none",
         d |-> [key \in present |->
                  IF IsVariable(self, key) THEN item(self[key])
                  ELSE self[key]]]

(* LearningRateDecay.state_dict, lines 75-96 *)
state_dict(self) ==
    LET present == KeySet(self) \cap DOMAIN self
        oversize == {key \in present :
                       IsVariable(self, key) /\ self[key].n # 1}
    IN  IF oversize # {}
          THEN [exc |-> "AssertionError", d |-> <<>>]
          ELSE [exc |-> "none",
                d |-> [key \in present |->
                         IF IsVariable(self, key) THEN item(self[key])
                         ELSE self[key]]]

(* The loop of lines 109-117 from the i-th key on: each key found is       *)
(* stored at once, the first key missing raises.                           *)
RECURSIVE load_keys(_, _, _, _)
load_keys(self, keys, d, i) ==
    IF i > Len(keys)
      THEN [exc |-> "none", self |-> self]
    ELSE IF keys[i] \in DOMAIN d
      THEN load_keys([self EXCEPT ![keys[i]] = d[keys[i]]], keys, d, i + 1)
    ELSE [exc |-> "RuntimeError", self |-> self]

(* set_state_dict that warns whenever the mapping has at least as many     *)
(* keys as the class declares.                                             *)
set_state_dict_warns_on_equal(self, d) ==
    LET r == load_keys(self, state_keys(self), d, 1) IN
    [exc |-> r.exc,
     self |-> r.self,
     warned |-> r.exc = "none"
                /\ Cardinality(DOMAIN d) >= Len(state_keys(self))]

(* LearningRateDecay.set_state_dict, lines 104-121 *)
set_state_dict(self, d) ==
    LET r == load_keys(self, state_keys(self), d, 1) IN
    [exc |-> r.exc,
     self |-> r.self,
     warned |-> r.exc = "none"
                /\ Cardinality(DOMAIN d) > Len(state_keys(self))]

-----------------------------------------------------------------------------
(* Inputs.                                                                 *)
MinusTwo == <<-2, 1>>

(* Constructor arguments of ReduceLROnPlateau: every combination of mode,  *)
(* threshold_mode, threshold, patience and cooldown with the default rate  *)
(* arguments, and every combination of learning_rate, decay_rate, min_lr,  *)
(* eps, patience and cooldown with the default comparison.                 *)
PlateauArgsAll ==
    [learning_rate : {PyFloat(One), Variable(One, 1)},
     mode : {"min", "MAX", "avg"},
     decay_rate : {Half, One, Two},
     patience : 0 .. MaxPatience,
     threshold : {Zero, Half},
     threshold_mode : {"rel", "Abs", "pct"},
     cooldown : 0 .. MaxCooldown,
     min_lr : {Zero, Half, Two},
     eps : {MinusTwo, Zero, Quarter}]

DefaultRate(a) ==
    /\ a.learning_rate = PyFloat(One)
    /\ a.decay_rate = Half
    /\ a.min_lr = Zero
    /\ a.eps = Quarter

DefaultComparison(a) ==
    /\ a.mode = "min"
    /\ a.threshold_mode = "rel"
    /\ a.threshold = Half

PlateauArgs == {a \in PlateauArgsAll : DefaultRate(a) \/ DefaultComparison(a)}

PolyArgs ==
    [learning_rate : {PyFloat(One)},
     decay_steps : {1, 2, 3},
     end_learning_rate : {Zero, Quarter, One},
     power : {1, 2},
     cycle : BOOLEAN,
     begin : {0, 1},
     step : {1, 2}]

NoamArgs ==
    [d_model : {1, 4},
     warmup_steps : {1, 2},
     begin : {0, 1},
     step : {1, 2},
     learning_rate : {PyFloat(One)}]

(* The schedulers a LinearLrWarmup wraps in the model.                     *)
BaseSchedulers ==
    {PolynomialDecay_init(a).self :
       a \in {x \in PolyArgs : x.decay_steps = 3 /\ x.power = 1
                               /\ x.end_learning_rate = Zero /\ x.begin = 0}}
    \cup
    {NoamDecay_init(a).self :
       a \in {x \in NoamArgs : x.d_model = 4 /\ x.warmup_steps = 2}}

WarmupArgs ==
    [learning_rate : {PyFloat(Half), PyInt(One), Variable(One, 1)}
                     \cup BaseSchedulers,
     warmup_steps : {0, 2, 3},
     start_lr : {Zero, One},
     end_lr : {Zero, One},
     begin : {0, 1},
     step : {1}]

LossValues == {MinusTwo, One, Two}

(* A loss is a Variable of one element, or of two.                         *)
Losses == {Variable(x, 1) : x \in LossValues} \cup {Variable(Zero, 2)}

(* Arguments of ReduceLROnPlateau where the state is saved and loaded.      *)
PlateauArgsCkpt ==
    [learning_rate : {PyFloat(One)},
     mode : {"min", "MAX", "avg"},
     decay_rate : {Half, One, Two},
     patience : {1},
     threshold : {Half},
     threshold_mode : {"rel", "Abs", "pct"},
     cooldown : {1},
     min_lr : {Zero},
     eps : {Quarter}]

(* Constructor arguments of the epoch-indexed scheduler.                   *)
EpochArgs ==
    [learning_rate : {PyFloat(One), PyFloat(Half), PyInt(Two), PyFloat(Zero),
                      PyFloat(MinusTwo), Variable(One, 1)},
     decay_rate : {Half, Quarter}]

(* Arguments of ReduceLROnPlateau for runs whose losses stop improving.    *)
Eighth == <<1, 8>>

PlateauArgsWorse ==
    [learning_rate : {PyFloat(One)},
     mode : {"min", "MAX"},
     decay_rate : {Zero, Half},
     patience : 0 .. MaxPatience,
     threshold : {Half},
     threshold_mode : {"rel"},
     cooldown : 0 .. MaxCooldown,
     min_lr : {Zero, Half, Two},
     eps : {Zero, Eighth, Quarter}]

(* The mappings handed to set_state_dict: a saved one, a saved one with    *)
(* one key missing, a saved one with a key no class declares.              *)
Without(d, key) == [x \in DOMAIN d \ {key} |-> d[x]]
WithUnused(d) ==
    [x \in DOMAIN d \cup {"unused"} |-> IF x = "unused" THEN 0 ELSE d[x]]
Mappings(d) == {d, WithUnused(d)} \cup {Without(d, key) : key \in DOMAIN d}

NoOp == [name |-> "init", loss |-> None, compared |-> FALSE,
         improves |-> FALSE, reduced |-> FALSE, nth |-> 0,
         d |-> <<>>, same |-> FALSE]

-----------------------------------------------------------------------------
(* Operations of the training loop on a ReduceLROnPlateau.                 *)

Init ==
    /\ sched = NoObj
    /\ ctor = NoObj
    /\ exc = "none"
    /\ ret = None
    /\ op = NoOp
    /\ run = 0
    /\ ncalls = 0
    /\ events = <<>>
    /\ saved = <<>>
    /\ warned = FALSE

(* The state a constructor call leaves: r is what __init__ gave.           *)
Constructed(class, a, r) ==
    /\ sched' = r.self
    /\ exc' = r.exc
    /\ ctor' = [cls |-> class, args |-> a]
    /\ op' = [NoOp EXCEPT !.name = "new"]
    /\ ret' = None
    /\ UNCHANGED <<run, ncalls, saved, warned, events>>

(* reduce_lr = ReduceLROnPlateau(...) *)
NewReduceLROnPlateau ==
    /\ op.name = "init"
    /\ \E a \in PlateauArgs :
         Constructed("ReduceLROnPlateau", a, ReduceLROnPlateau_init(a))

(* reduce_lr.step(loss) *)
Step ==
    /\ sched.cls = "ReduceLROnPlateau"
    /\ sched.epoch_num < MaxEpoch
    /\ \E loss \in Losses :
         LET r == ReduceLROnPlateau_step(sched, loss)
             compared == loss.n = 1 /\ sched.cooldown_counter = 0
             improves == loss.n = 1 /\ Improves(sched, loss)
             reduced == loss.n = 1 /\ ReductionEvent(sched, loss)
         IN
           /\ sched' = r.self
           /\ exc' = r.exc
           /\ op' = [name |-> "step", loss |-> loss, compared |-> compared,
                     improves |-> improves, reduced |-> reduced,
                     nth |-> IF compared /\ ~improves THEN run + 1 ELSE 0]
           /\ run' = IF ~compared THEN run
                     ELSE IF improves \/ reduced THEN 0 ELSE run + 1
           /\ ncalls' = IF r.exc = "none" THEN ncalls + 1 ELSE ncalls
           /\ events' = IF reduced THEN Append(events, ncalls + 1)
                        ELSE events
    /\ ret' = None
    /\ UNCHANGED <<ctor, saved, warned>>

(* reduce_lr(): the optimizer reads the current rate *)
Call ==
    /\ sched.cls = "ReduceLROnPlateau"
    /\ sched' = Plateau_call(sched)
    /\ ret' = sched'.learning_rate
    /\ exc' = "none"
    /\ op' = [NoOp EXCEPT !.name = "call"]
    /\ UNCHANGED <<ctor, run, ncalls, saved, warned, events>>

NextPlateau ==
    \/ NewReduceLROnPlateau
    \/ Step
    \/ Call

SpecPlateau == Init /\ [][NextPlateau]_vars

-----------------------------------------------------------------------------
(* Operations of the training loop on a step-indexed scheduler.            *)
StepIndexed == {"PolynomialDecay", "NoamDecay", "LinearLrWarmup"}

NewPolynomialDecay ==
    /\ op.name = "init"
    /\ \E a \in PolyArgs :
         Constructed("PolynomialDecay", a, PolynomialDecay_init(a))

NewNoamDecay ==
    /\ op.name = "init"
    /\ \E a \in NoamArgs :
         Constructed("NoamDecay", a, NoamDecay_init(a))

NewLinearLrWarmup ==
    /\ op.name = "init"
    /\ \E a \in WarmupArgs :
         Constructed("LinearLrWarmup", a, LinearLrWarmup_init(a))

(* lr = scheduler(): the optimizer asks for the rate of this step *)
Advance ==
    /\ sched.cls \in StepIndexed
    /\ ncalls < MaxCalls
    /\ LET r == call(sched) IN
         /\ sched' = r.self
         /\ exc' = r.exc
         /\ ret' = r.val
         /\ ncalls' = IF r.exc = "none" THEN ncalls + 1 ELSE ncalls
    /\ op' = [NoOp EXCEPT !.name = "advance"]
    /\ UNCHANGED <<ctor, run, saved, warned, events>>

NextStep ==
    \/ NewPolynomialDecay
    \/ NewNoamDecay
    \/ NewLinearLrWarmup
    \/ Advance

SpecStep == Init /\ [][NextStep]_vars

-----------------------------------------------------------------------------
(* Saving and loading the state of any scheduler during training.          *)

NewReduceLROnPlateauCkpt ==
    /\ op.name = "init"
    /\ \E a \in PlateauArgsCkpt :
         Constructed("ReduceLROnPlateau", a, ReduceLROnPlateau_init(a))

(* reduce_lr.step(loss) in the first MaxCkptEpoch epochs *)
StepCkpt ==
    /\ ncalls < MaxCalls
    /\ Step
    /\ sched'.epoch_num <= MaxCkptEpoch

(* saved = scheduler.state_dict() *)
StateDict ==
    /\ sched.cls # "None"
    /\ LET r == state_dict(sched) IN
         /\ exc' = r.exc
         /\ saved' = IF r.exc = "none" THEN r.d ELSE saved
    /\ op' = [NoOp EXCEPT !.name = "state_dict"]
    /\ ret' = None
    /\ warned' = FALSE
    /\ UNCHANGED <<sched, ctor, run, ncalls, events>>

(* scheduler.set_state_dict(d) *)
SetStateDict ==
    /\ sched.cls # "None"
    /\ saved # <<>>
    /\ \E d \in Mappings(saved) :
         LET r == set_state_dict(sched, d) IN
           /\ sched' = r.self
           /\ exc' = r.exc
           /\ warned' = r.warned
           /\ op' = [NoOp EXCEPT !.name = "set_state_dict", !.d = d,
                                 !.same = (d = state_dict(sched).d)]
    /\ ret' = None
    /\ run' = 0
    /\ UNCHANGED <<ctor, ncalls, saved, events>>

Next ==
    \/ NewReduceLROnPlateauCkpt
    \/ NewPolynomialDecay
    \/ NewNoamDecay
    \/ NewLinearLrWarmup
    \/ StepCkpt
    \/ Call
    \/ Advance
    \/ StateDict
    \/ SetStateDict

Spec == Init /\ [][Next]_vars

-----------------------------------------------------------------------------
(* Operations of the training loop on an epoch-indexed scheduler.          *)

NewEpochDecay ==
    /\ op.name = "init"
    /\ \E a \in EpochArgs :
         Constructed("EpochDecay", a, LearningRateEpochDecay_init(a))

(* scheduler.epoch() *)
Epoch ==
    /\ sched.cls = "EpochDecay"
    /\ sched.epoch_num < MaxEpoch
    /\ sched' = LearningRateEpochDecay_epoch(sched, None)
    /\ exc' = "none"
    /\ ret' = None
    /\ op' = [NoOp EXCEPT !.name = "epoch"]
    /\ UNCHANGED <<ctor, run, ncalls, saved, warned, events>>

(* scheduler.epoch(k); op.nth records k                                    *)
EpochAt ==
    /\ sched.cls = "EpochDecay"
    /\ \E k \in 0 .. MaxEpoch :
         /\ sched' = LearningRateEpochDecay_epoch(sched, PyInt(OfInt(k)))
         /\ op' = [NoOp EXCEPT !.name = "epoch_at", !.nth = k]
    /\ exc' = "none"
    /\ ret' = None
    /\ UNCHANGED <<ctor, run, ncalls, saved, warned, events>>

(* lr = scheduler(): the optimizer reads the rate of this epoch *)
EpochRead ==
    /\ sched.cls = "EpochDecay"
    /\ sched' = LearningRateEpochDecay_call(sched)
    /\ ret' = sched'.learning_rate
    /\ exc' = "none"
    /\ op' = [NoOp EXCEPT !.name = "read"]
    /\ UNCHANGED <<ctor, run, ncalls, saved, warned, events>>

NextEpoch ==
    \/ NewEpochDecay
    \/ Epoch
    \/ EpochAt
    \/ EpochRead

SpecEpoch == Init /\ [][NextEpoch]_vars

-----------------------------------------------------------------------------
(* A training loop whose loss has stopped improving: every step(loss) call *)
(* after the first brings a loss that is no improvement, and the loop      *)
(* goes on up to the epoch bound.                                          *)

NewReduceLROnPlateauWorse ==
    /\ op.name = "init"
    /\ \E a \in PlateauArgsWorse :
         Constructed("ReduceLROnPlateau", a, ReduceLROnPlateau_init(a))

(* reduce_lr.step(loss) with the first loss, or one that does not improve  *)
StepWorse ==
    /\ Step
    /\ exc' = "none"
    /\ sched.best_loss.k = "none" \/ ~op'.improves

NextWorse ==
    \/ NewReduceLROnPlateauWorse
    \/ StepWorse
    \/ Call

SpecWorse == Init /\ [][NextWorse]_vars

-----------------------------------------------------------------------------
(* Properties of ReduceLROnPlateau.                                        *)
IsPlateau == sched.cls = "ReduceLROnPlateau"

(* C1: a step(loss) call made while cooldown_counter > 0 lowers            *)
(* cooldown_counter by exactly 1 and leaves best_loss, num_bad_epochs and  *)
(* learning_rate unchanged, whatever the loss: it makes no comparison and  *)
(* no reduction.                                                           *)
C1_CooldownSkipsComparison ==
    [][(Step /\ exc' = "none" /\ sched.cooldown_counter > 0) =>
         /\ sched'.cooldown_counter = sched.cooldown_counter - 1
         /\ sched'.best_loss = sched.best_loss
         /\ sched'.num_bad_epochs = sched.num_bad_epochs
         /\ sched'.learning_rate = sched.learning_rate]_vars

(* A step call made during cooldown with a loss that would have improved   *)
(* on best_loss, right after a cooldown that a reduction started.          *)
C1_Witness ==
    /\ IsPlateau
    /\ op.name = "step"
    /\ exc = "none"
    /\ ~op.compared
    /\ op.improves
    /\ sched.cooldown_counter = sched.cooldown - 1

(* C2 as stated: learning_rate is never below min_lr, and no step(loss)    *)
(* call leaves learning_rate higher than it was.                           *)
C2_Original ==
    /\ [](IsPlateau => RLe(sched.min_lr.v, sched.learning_rate.v))
    /\ [][Step => RLe(sched'.learning_rate.v, sched.learning_rate.v)]_vars

(* C2 amended: learning_rate is never below the smaller of min_lr and the  *)
(* learning_rate given at construction, and with eps >= 0 no step(loss)    *)
(* call leaves learning_rate higher than it was.                           *)
C2_NeverBelowFloor ==
    /\ [](IsPlateau =>
            RLe(RMin(sched.min_lr.v, ctor.args.learning_rate.v),
                sched.learning_rate.v))
    /\ [][(Step /\ RLe(Zero, sched.eps)) =>
            RLe(sched'.learning_rate.v, sched.learning_rate.v)]_vars

(* A reduction has lowered learning_rate to exactly min_lr > 0.            *)
C2_Witness ==
    /\ IsPlateau
    /\ op.name = "step"
    /\ op.reduced
    /\ RLt(Zero, sched.min_lr.v)
    /\ sched.learning_rate.v = sched.min_lr.v
    /\ RLt(sched.learning_rate.v, ctor.args.learning_rate.v)

(* C3: with cooldown = 0, the n-th consecutive non-improving step(loss)    *)
(* call triggers a reduction event exactly when n = patience + 1 (so none  *)
(* of the first patience calls does), and the event sets learning_rate to  *)
(* max(old * decay_rate, min_lr) unless old minus that is within eps, in   *)
(* which case learning_rate is unchanged.                                  *)
C3_OneReductionAfterPatience ==
    [][(Step /\ exc' = "none" /\ sched.cooldown = 0 /\ ~op'.improves) =>
         LET old == sched.learning_rate.v
             cand == RMax(RMul(old, sched.decay_rate.v), sched.min_lr.v)
         IN  /\ op'.nth <= sched.patience + 1
             /\ op'.reduced <=> (op'.nth = sched.patience + 1)
             /\ op'.reduced <=> (sched'.num_bad_epochs = 0)
             /\ sched'.learning_rate.v =
                  IF op'.reduced /\ RLt(sched.eps, RSub(old, cand))
                    THEN cand ELSE old]_vars

(* The (patience+1)-th non-improving call in a row, patience > 0, has      *)
(* reduced the rate.                                                       *)
C3_Witness ==
    /\ IsPlateau
    /\ sched.cooldown = 0
    /\ sched.patience > 0
    /\ op.name = "step"
    /\ op.reduced
    /\ op.nth = sched.patience + 1
    /\ RLt(sched.learning_rate.v, ctor.args.learning_rate.v)

(* The fields of a ReduceLROnPlateau that C8 names, learning_rate by its   *)
(* number.                                                                 *)
PlateauFields(self) ==
    <<self.cooldown_counter, self.best_loss, self.num_bad_epochs,
      self.epoch_num, self.step_num, self.learning_rate.v>>

(* C8: reading the current rate never changes cooldown_counter, best_loss, *)
(* num_bad_epochs, epoch_num, step_num or the number learning_rate holds;  *)
(* only step(loss) changes them.                                           *)
C8_ReadKeepsState ==
    [][(IsPlateau /\ ~Step) =>
         PlateauFields(sched') = PlateauFields(sched)]_vars

(* A read made between step calls that turned a float learning_rate into   *)
(* a Variable.                                                             *)
C8_Witness ==
    /\ IsPlateau
    /\ op.name = "call"
    /\ sched.epoch_num > 0
    /\ ctor.args.learning_rate.k = "float"
    /\ sched.learning_rate.k = "var"
    /\ ret = sched.learning_rate
    /\ sched.learning_rate.v = ctor.args.learning_rate.v

(* C10: step(loss) with a loss that does not hold exactly one element      *)
(* fails at that call and leaves every field of the scheduler as it was.   *)
C10_BadLossFailsBeforeMutation ==
    [][(Step /\ op'.loss.n # 1) =>
         /\ exc' # "none"
         /\ sched' = sched]_vars

(* A two-element loss was refused by a scheduler that is in cooldown.      *)
C10_Witness ==
    /\ IsPlateau
    /\ op.name = "step"
    /\ op.loss.n = 2
    /\ exc = "AssertionError"
    /\ sched.epoch_num > 0
    /\ sched.cooldown_counter > 0

-----------------------------------------------------------------------------
(* Properties of the step-indexed schedulers.                              *)
WrapsScheduler ==
    sched.cls = "LinearLrWarmup" /\ IsScheduler(sched.learning_rate)

(* The value of the linear ramp at the step_num of self.                   *)
Ramp(self) ==
    RAdd(RMul(self.lr_ratio_before_warmup, OfInt(self.step_num)),
         self.start_lr)

(* C6 as stated: an advance made while the wrapper's step_num is below     *)
(* warmup_steps does not invoke the wrapped scheduler, whose step_num      *)
(* stays as it was.                                                        *)
C6_Original ==
    [][(Advance /\ exc' = "none" /\ WrapsScheduler
        /\ sched.step_num < sched.warmup_steps) =>
         sched'.learning_rate.step_num = sched.learning_rate.step_num]_vars

(* C6 amended: every successful advance of a LinearLrWarmup that wraps a   *)
(* step-indexed scheduler invokes that scheduler once, also while the      *)
(* wrapper's step_num is below warmup_steps: the wrapped scheduler's       *)
(* step_num rises by its step_size on each call, and during warmup its     *)
(* value is dropped for the linear ramp.                                   *)
C6_BaseAdvancesOnEveryCall ==
    [][(Advance /\ exc' = "none" /\ WrapsScheduler) =>
         /\ sched'.learning_rate.step_num =
              sched.learning_rate.step_num + sched.learning_rate.step_size
         /\ sched.step_num < sched.warmup_steps => ret'.v = Ramp(sched)
         /\ sched.step_num >= sched.warmup_steps =>
              ret' = call(sched.learning_rate).val]_vars

(* Two advances made during warmup have moved a wrapped PolynomialDecay    *)
(* two steps on.                                                           *)
C6_Witness ==
    /\ WrapsScheduler
    /\ op.name = "advance"
    /\ exc = "none"
    /\ sched.step_num < sched.warmup_steps
    /\ sched.learning_rate.cls = "PolynomialDecay"
    /\ sched.learning_rate.step_num = 2 * sched.learning_rate.step_size
    /\ ncalls = 2

(* C7: a successful advance returns the rate step() computes from the      *)
(* step_num held before the call and raises step_num by exactly step_size; *)
(* after n successful advances step_num = begin + n * step_size.           *)
C7_AdvanceCountsSteps ==
    /\ [](sched.cls \in StepIndexed =>
            sched.step_num = ctor.args.begin + ncalls * sched.step_size)
    /\ [][(Advance /\ exc' = "none") =>
            /\ ret'.v = step(sched).val.v
            /\ ret'.rt = step(sched).val.rt
            /\ sched'.step_num = sched.step_num + sched.step_size]_vars

(* A PolynomialDecay with step_size 2 after three advances.                *)
C7_Witness ==
    /\ sched.cls = "PolynomialDecay"
    /\ sched.step_size = 2
    /\ ncalls = 3
    /\ op.name = "advance"
    /\ exc = "none"
    /\ ret.k = "var"
    /\ sched.step_num = ctor.args.begin + 6

-----------------------------------------------------------------------------
(* Properties of saving and loading, and of construction.                  *)

(* The declared keys hold the same numbers in s and t, and every other     *)
(* field is the same.                                                      *)
SameState(s, t) ==
    /\ DOMAIN s = DOMAIN t
    /\ \A f \in DOMAIN s :
         IF f \in KeySet(s) /\ f \in ValueKeys
           THEN /\ s[f].v = t[f].v
                /\ s[f].n = t[f].n
                /\ (s[f].k = "none") <=> (t[f].k = "none")
           ELSE s[f] = t[f]

(* C4: set_state_dict(state_dict()) on the same scheduler succeeds, leaves *)
(* every declared counter and the rate at the value it had, and applying   *)
(* it a second time changes nothing more.                                  *)
C4_RoundTrip ==
    [][(SetStateDict /\ op'.same) =>
         /\ exc' = "none"
         /\ SameState(sched', sched)
         /\ state_dict(sched').exc = "none"
         /\ set_state_dict(sched', state_dict(sched').d).exc = "none"
         /\ set_state_dict(sched', state_dict(sched').d).self = sched']_vars

(* A ReduceLROnPlateau that has seen losses and whose rate is a Variable   *)
(* loaded the mapping it had just saved.                                   *)
C4_Witness ==
    /\ IsPlateau
    /\ op.name = "set_state_dict"
    /\ op.same
    /\ exc = "none"
    /\ sched.epoch_num > 1
    /\ sched.best_loss.k = "float"
    /\ sched.learning_rate.k = "float"
    /\ RLt(sched.learning_rate.v, ctor.args.learning_rate.v)

(* C5: a set_state_dict that fails for a missing key leaves every field of *)
(* the scheduler, the declared keys present in the mapping included, at    *)
(* the value (the number, for a rate or a loss) it had before the call.    *)
C5_NoPartialRestore ==
    [][(SetStateDict /\ exc' = "RuntimeError") =>
         SameState(sched', sched)]_vars

(* The constructor arguments C9 names.                                     *)
BadPlateauArgs(a) ==
    \/ RLe(One, a.decay_rate)
    \/ lower(a.mode) \notin {"min", "max"}
    \/ lower(a.threshold_mode) \notin {"rel", "abs"}

BadWarmupArgs(a) ==
    /\ RLe(a.end_lr, a.start_lr)
    /\ (IsScheduler(a.learning_rate) \/ a.learning_rate.k \in {"float", "int"})

BadConstruction ==
    \/ ctor.cls = "ReduceLROnPlateau" /\ BadPlateauArgs(ctor.args)
    \/ ctor.cls = "LinearLrWarmup" /\ BadWarmupArgs(ctor.args)

(* C9 as stated: each of these constructions fails with a ValueError and   *)
(* leaves no scheduler.                                                    *)
C9_Original ==
    BadConstruction => (exc = "ValueError" /\ sched.cls = "None")

(* C9 amended: each of these constructions fails at construction, a        *)
(* ReduceLROnPlateau with a ValueError and a LinearLrWarmup (whose         *)
(* learning_rate is a number or a scheduler) with an AssertionError; no    *)
(* scheduler exists afterwards and no operation on one can follow.         *)
C9_ConstructionFailsFast ==
    BadConstruction =>
      /\ sched.cls = "None"
      /\ op.name = "new"
      /\ exc = IF ctor.cls = "ReduceLROnPlateau" THEN "ValueError"
               ELSE "AssertionError"
      /\ ~ENABLED (StepCkpt \/ Call \/ Advance \/ StateDict \/ SetStateDict)

(* A LinearLrWarmup with end_lr = start_lr was refused.                    *)
C9_Witness ==
    /\ ctor.cls = "LinearLrWarmup"
    /\ ctor.args.end_lr = ctor.args.start_lr
    /\ IsScheduler(ctor.args.learning_rate)
    /\ exc = "AssertionError"
    /\ sched.cls = "None"

(* C11: set_state_dict with a mapping that holds every declared key and    *)
(* keys beyond them does not fail: every declared field takes the          *)
(* mapping's value, no other field appears or changes, and a warning is    *)
(* emitted; with exactly the declared keys no warning is emitted.          *)
C11_SurplusKeysWarn ==
    [][(SetStateDict /\ KeySet(sched) \subseteq DOMAIN op'.d) =>
         /\ exc' = "none"
         /\ \A key \in KeySet(sched) : sched'[key] = op'.d[key]
         /\ DOMAIN sched' = DOMAIN sched
         /\ \A f \in DOMAIN sched \ KeySet(sched) : sched'[f] = sched[f]
         /\ warned' = (DOMAIN op'.d # KeySet(sched))]_vars

(* A ReduceLROnPlateau that has seen losses loaded a mapping with the key  *)
(* "unused" in it, and warned.                                             *)
C11_Witness ==
    /\ IsPlateau
    /\ op.name = "set_state_dict"
    /\ "unused" \in DOMAIN op.d
    /\ KeySet(sched) \subseteq DOMAIN op.d
    /\ exc = "none"
    /\ warned
    /\ "unused" \notin DOMAIN sched
    /\ sched.epoch_num = op.d["epoch_num"]
    /\ sched.epoch_num > 0

(* C12: a scheduler's own step_num changes only in scheduler() of a        *)
(* step-indexed scheduler and in set_state_dict: state_dict(), step(loss)  *)
(* and the rate read of ReduceLROnPlateau leave it as it was, and so does  *)
(* the step() computation of PolynomialDecay, NoamDecay and LinearLrWarmup *)
(* on its own.                                                             *)
C12_StepNumFrame ==
    /\ [][(sched.cls # "None" /\ ~Advance /\ ~SetStateDict) =>
            sched'.step_num = sched.step_num]_vars
    /\ [](sched.cls \in StepIndexed =>
            step(sched).self.step_num = sched.step_num)

(* A ReduceLROnPlateau whose step_num is still the 0 of its construction   *)
(* after step(loss) calls, a reduction among them.                         *)
C12_Witness ==
    /\ IsPlateau
    /\ op.name = "step"
    /\ exc = "none"
    /\ sched.epoch_num = MaxCkptEpoch
    /\ RLt(sched.learning_rate.v, ctor.args.learning_rate.v)
    /\ sched.step_num = 0

(* The ramp of a LinearLrWarmup at step n, from its constructor arguments. *)
RampAt(a, n) ==
    RAdd(RMul(RDiv(RSub(a.end_lr, a.start_lr), OfInt(a.warmup_steps)),
              OfInt(n)),
         a.start_lr)

(* C13: scheduler() of a LinearLrWarmup made at step_num < warmup_steps    *)
(* returns exactly lr_ratio_before_warmup * step_num + start_lr, whatever  *)
(* it wraps; made at step_num >= warmup_steps it returns the value of what *)
(* it wraps: the constant, or the rate the wrapped scheduler computes at   *)
(* the step_num that scheduler holds.                                      *)
C13_WarmupThenBase ==
    [][(Advance /\ exc' = "none" /\ sched.cls = "LinearLrWarmup") =>
         IF sched.step_num < sched.warmup_steps
           THEN /\ ret'.v = RampAt(ctor.args, sched.step_num)
                /\ ret'.rt = 1
         ELSE IF IsScheduler(sched.learning_rate)
           THEN /\ ret'.v = step(sched.learning_rate).val.v
                /\ ret'.rt = step(sched.learning_rate).val.rt
         ELSE /\ ret'.v = ctor.args.learning_rate.v
              /\ ret'.rt = 1]_vars

(* The call made at step_num = warmup_steps returned the rate of the       *)
(* wrapped PolynomialDecay, which is not the end of the ramp.              *)
C13_Witness ==
    /\ WrapsScheduler
    /\ op.name = "advance"
    /\ exc = "none"
    /\ sched.learning_rate.cls = "PolynomialDecay"
    /\ sched.step_num = sched.warmup_steps + sched.step_size
    /\ ret.v # ctor.args.end_lr
    /\ RLt(Zero, ret.v)

-----------------------------------------------------------------------------
(* Properties of PolynomialDecay.                                          *)

(* A PolynomialDecay with cycle = False, power = 1 and begin = 0.          *)
LinearDecay ==
    /\ sched.cls = "PolynomialDecay"
    /\ ~sched.cycle
    /\ sched.power = 1
    /\ ctor.args.begin = 0

(* C14: for a PolynomialDecay with cycle = False, power = 1, begin = 0 and *)
(* learning_rate >= end_learning_rate, the rate returned at step 0 is      *)
(* learning_rate, the rate returned at every step_num >= decay_steps is    *)
(* end_learning_rate, and each scheduler() call returns a rate that is not *)
(* above the rate the call before it returned.                             *)
C14_LinearDecayToEnd ==
    [][(Advance /\ exc' = "none" /\ LinearDecay
        /\ RLe(sched.end_learning_rate, sched.learning_rate.v)) =>
         /\ sched.step_num = 0 => ret'.v = ctor.args.learning_rate.v
         /\ sched.step_num >= sched.decay_steps =>
              ret'.v = ctor.args.end_learning_rate
         /\ op.name = "advance" => RLe(ret'.v, ret.v)]_vars

(* A call made past decay_steps returned end_learning_rate, here 1/4,      *)
(* after calls that returned more.                                         *)
C14_Witness ==
    /\ LinearDecay
    /\ op.name = "advance"
    /\ exc = "none"
    /\ sched.step_size = 1
    /\ sched.step_num = sched.decay_steps + 2
    /\ ctor.args.end_learning_rate = Quarter
    /\ ret.v = Quarter

(* A PolynomialDecay with cycle = True.                                    *)
Cyclic == sched.cls = "PolynomialDecay" /\ sched.cycle

(* The number of the cycle step n lies in: ceil(n / decay_steps), and 1    *)
(* at step 0.                                                              *)
Divisor(a, n) ==
    IF n = 0 THEN 1 ELSE (n + a.decay_steps - 1) \div a.decay_steps

(* The rate of the constructor arguments a at step n of a cycle that ends  *)
(* at step horizon.                                                        *)
RateAt(a, n, horizon) ==
    RAdd(RMul(RSub(a.learning_rate.v, a.end_learning_rate),
              RPow(RSub(One, Rat(n, horizon)), a.power)),
         a.end_learning_rate)

(* The step_num at which the scheduler() call before this one was made.    *)
PreviousStep == sched.step_num - sched.step_size

(* C15 as stated: with cycle = True, the first call made in a new cycle    *)
(* returns a rate strictly above the rate of the call before it, the last  *)
(* one of the cycle before.                                                *)
C15_Original ==
    [][(Advance /\ exc' = "none" /\ Cyclic /\ op.name = "advance"
        /\ Divisor(ctor.args, sched.step_num)
             > Divisor(ctor.args, PreviousStep)) =>
         RLt(ret.v, ret'.v)]_vars

(* C15 amended: with cycle = True every call computes the rate with the    *)
(* horizon decay_steps * ceil(step_num / decay_steps) (decay_steps at step *)
(* 0); the rate at a step_num that is a positive multiple of decay_steps   *)
(* is end_learning_rate; and when learning_rate > end_learning_rate and    *)
(* decay_steps > 1, the call made one step after such a multiple returns a *)
(* rate strictly above end_learning_rate, the rate of the call before it.  *)
C15_CyclicReset ==
    [][(Advance /\ exc' = "none" /\ Cyclic) =>
         /\ ret'.v = RateAt(ctor.args, sched.step_num,
                            sched.decay_steps
                              * Divisor(ctor.args, sched.step_num))
         /\ (sched.step_num > 0 /\ sched.step_num % sched.decay_steps = 0) =>
              ret'.v = ctor.args.end_learning_rate
         /\ (/\ op.name = "advance"
             /\ sched.step_size = 1
             /\ PreviousStep > 0
             /\ PreviousStep % sched.decay_steps = 0
             /\ sched.decay_steps > 1
             /\ RLt(sched.end_learning_rate, sched.learning_rate.v)) =>
              /\ ret.v = ctor.args.end_learning_rate
              /\ RLt(ret.v, ret'.v)]_vars

(* The call at step decay_steps + 1 returned more than the call at step    *)
(* decay_steps, which returned end_learning_rate.                          *)
C15_Witness ==
    /\ Cyclic
    /\ op.name = "advance"
    /\ exc = "none"
    /\ sched.step_size = 1
    /\ sched.decay_steps > 1
    /\ sched.step_num = sched.decay_steps + 2
    /\ RLt(sched.end_learning_rate, ret.v)
    /\ RLt(ret.v, sched.learning_rate.v)

-----------------------------------------------------------------------------
(* Properties of the epoch-indexed scheduler.                              *)

(* The rate the subclass gives for the constructor arguments a at epoch n. *)
GetLrAt(a, n) == RMul(a.learning_rate.v, RPow(a.decay_rate, n))

(* C16: right after construction epoch_num = 0 and learning_rate is the    *)
(* rate of epoch 0; epoch() raises epoch_num by exactly 1, epoch(k) sets   *)
(* it to k, and after either learning_rate is the rate of the new          *)
(* epoch_num; reading the rate leaves epoch_num and the rate's number as   *)
(* they were.                                                              *)
C16_EpochDrivesRate ==
    /\ []((op.name = "new" /\ sched.cls = "EpochDecay") =>
            /\ sched.epoch_num = 0
            /\ sched.learning_rate.v = GetLrAt(ctor.args, 0))
    /\ [][Epoch => sched'.epoch_num = sched.epoch_num + 1]_vars
    /\ [][EpochAt => sched'.epoch_num = op'.nth]_vars
    /\ [][(Epoch \/ EpochAt) =>
            sched'.learning_rate.v = GetLrAt(ctor.args, sched'.epoch_num)]_vars
    /\ [][EpochRead =>
            /\ sched'.epoch_num = sched.epoch_num
            /\ sched'.learning_rate.v = sched.learning_rate.v
            /\ ret' = sched'.learning_rate
            /\ ret'.k = "var"]_vars

(* After three epoch() calls a scheduler built with learning_rate 2 and    *)
(* decay_rate 1/2 holds the rate 1/4.                                      *)
C16_Witness ==
    /\ sched.cls = "EpochDecay"
    /\ op.name = "epoch"
    /\ ctor.args.learning_rate = PyInt(Two)
    /\ ctor.args.decay_rate = Half
    /\ sched.epoch_num = 3
    /\ sched.learning_rate = PyFloat(Quarter)

(* C17: every scheduler() call of a step-indexed scheduler that returns    *)
(* gives a Variable, never a plain number, also a LinearLrWarmup over a    *)
(* float or int constant, during the warmup and after it.                  *)
C17_AlwaysVariable ==
    [][(Advance /\ exc' = "none") => ret'.k = "var"]_vars

-----------------------------------------------------------------------------
(* Further properties of ReduceLROnPlateau.                                *)

(* max(learning_rate * decay_rate, min_lr) of self, as a number.           *)
Candidate(self) ==
    RMax(RMul(self.learning_rate.v, self.decay_rate.v), self.min_lr.v)

(* C18: a step(loss) call made outside cooldown that brings num_bad_epochs *)
(* above patience sets cooldown_counter to cooldown and num_bad_epochs to  *)
(* 0, also when learning_rate - max(learning_rate * decay_rate, min_lr)    *)
(* <= eps; in that case learning_rate stays as it was, and otherwise it    *)
(* becomes exactly max(learning_rate * decay_rate, min_lr).                *)
C18_ReductionEventResets ==
    [][(Step /\ exc' = "none" /\ sched.cooldown_counter = 0
        /\ ~Improves(sched, op'.loss)
        /\ sched.num_bad_epochs + 1 > sched.patience) =>
         /\ sched'.cooldown_counter = sched.cooldown
         /\ sched'.num_bad_epochs = 0
         /\ sched'.learning_rate.v =
              IF RLe(RSub(sched.learning_rate.v, Candidate(sched)), sched.eps)
                THEN sched.learning_rate.v
                ELSE Candidate(sched)]_vars

(* With min_lr = 2 above the rate 1 the reduction was suppressed, and the  *)
(* cooldown of 2 epochs has started all the same.                          *)
C18_Witness ==
    /\ IsPlateau
    /\ op.name = "step"
    /\ op.reduced
    /\ ctor.args.min_lr = Two
    /\ sched.eps = Zero
    /\ sched.patience = 1
    /\ sched.learning_rate.v = One
    /\ sched.cooldown_counter = 2
    /\ sched.num_bad_epochs = 0

(* C19: a step(loss) call made outside cooldown with a loss equal to       *)
(* best_loss is never an improvement, whatever mode, threshold_mode,       *)
(* threshold >= 0 and the sign of best_loss: best_loss keeps its value     *)
(* and the epoch counts as bad (num_bad_epochs rises by 1, or a reduction  *)
(* event takes place).                                                     *)
C19_TiesNotBetter ==
    [][(Step /\ exc' = "none" /\ sched.cooldown_counter = 0
        /\ sched.best_loss.k # "none"
        /\ op'.loss.v = sched.best_loss.v) =>
         /\ sched'.best_loss.v = sched.best_loss.v
         /\ \/ sched'.num_bad_epochs = sched.num_bad_epochs + 1
            \/ /\ sched.num_bad_epochs + 1 > sched.patience
               /\ sched'.cooldown_counter = sched.cooldown
               /\ sched'.num_bad_epochs = 0]_vars

-----------------------------------------------------------------------------
(* Restoring a checkpoint into a new scheduler.                            *)

(* The scheduler the constructor call c builds.                            *)
Construct(c) ==
    CASE c.cls = "ReduceLROnPlateau" -> ReduceLROnPlateau_init(c.args).self
      [] c.cls = "PolynomialDecay" -> PolynomialDecay_init(c.args).self
      [] c.cls = "NoamDecay" -> NoamDecay_init(c.args).self
      [] c.cls = "LinearLrWarmup" -> LinearLrWarmup_init(c.args).self

(* A scheduler built anew with the arguments of sched, into which the      *)
(* state_dict() of sched has been loaded.                                  *)
Restored == set_state_dict(Construct(ctor), state_dict(sched).d).self

(* s and t give the same rates over the next n calls: scheduler() calls    *)
(* of a step-indexed scheduler, step(loss) calls with any losses and the   *)
(* rate read after each of them for a ReduceLROnPlateau.                   *)
RECURSIVE SameRates(_, _, _)
SameRates(s, t, n) ==
    IF n = 0 THEN TRUE
    ELSE IF s.cls = "ReduceLROnPlateau"
      THEN /\ s.learning_rate.v = t.learning_rate.v
           /\ \A loss \in {l \in Losses : l.n = 1} :
                SameRates(Plateau_step(s, loss), Plateau_step(t, loss), n - 1)
    ELSE LET a == call(s)
             b == call(t)
         IN  /\ a.exc = b.exc
             /\ a.val.v = b.val.v
             /\ a.val.rt = b.val.rt
             /\ SameRates(a.self, b.self, n - 1)

(* C20: a new scheduler built with the same constructor arguments, into    *)
(* which the state_dict() of the scheduler is loaded, returns the same     *)
(* rates as the scheduler itself over the calls that follow; for           *)
(* PolynomialDecay, NoamDecay, ReduceLROnPlateau and LinearLrWarmup, also  *)
(* one that wraps a scheduler.                                             *)
C20_RestoredRunsAlike ==
    (sched.cls # "None" /\ state_dict(sched).exc = "none") =>
      SameRates(sched, Restored, Horizon)

-----------------------------------------------------------------------------
(* Counters of ReduceLROnPlateau over a whole run.                         *)

(* C21: between the calls of a run made of step(loss) calls and rate reads *)
(* (no set_state_dict), 0 <= num_bad_epochs <= patience and                *)
(* 0 <= cooldown_counter <= cooldown, and epoch_num is the number of       *)
(* step(loss) calls that have succeeded so far.                            *)
C21_CounterBounds ==
    IsPlateau =>
      /\ 0 <= sched.num_bad_epochs
      /\ sched.num_bad_epochs <= sched.patience
      /\ 0 <= sched.cooldown_counter
      /\ sched.cooldown_counter <= sched.cooldown
      /\ sched.epoch_num = ncalls

(* A step(loss) call has just failed and was not counted; num_bad_epochs   *)
(* stands at patience after four calls that succeeded.                     *)
C21_Witness ==
    /\ IsPlateau
    /\ op.name = "step"
    /\ exc = "AssertionError"
    /\ ncalls = 4
    /\ sched.epoch_num = 4
    /\ sched.patience = 1
    /\ sched.num_bad_epochs = 1

(* C22: counting the successful step(loss) calls of a run from 1, the      *)
(* first reduction event is not before call patience + 2 (the first loss   *)
(* is always recorded as the best), and each later reduction event comes   *)
(* at least cooldown + patience + 1 calls after the one before it.         *)
C22_ReductionSpacing ==
    IsPlateau =>
      \A i \in 1 .. Len(events) :
        IF i = 1
          THEN events[i] >= sched.patience + 2
          ELSE events[i] - events[i - 1]
                 >= sched.cooldown + sched.patience + 1

(* Two reduction events as close as they can be with patience = 0 and      *)
(* cooldown = 1: at the second and at the fourth call.                     *)
C22_Witness ==
    /\ IsPlateau
    /\ op.name = "step"
    /\ op.reduced
    /\ sched.patience = 0
    /\ sched.cooldown = 1
    /\ events = <<2, 4>>

-----------------------------------------------------------------------------
(* Stabilisation of ReduceLROnPlateau.                                     *)

(* The constructor arguments C23 is about.                                 *)
Settling(a) ==
    /\ RLe(Zero, a.decay_rate)
    /\ RLt(a.decay_rate, One)
    /\ RLt(Zero, a.eps)
    /\ RLe(a.min_lr, a.learning_rate.v)

(* learning_rate - max(learning_rate * decay_rate, min_lr) <= eps          *)
Stable(self) ==
    RLe(RSub(self.learning_rate.v, Candidate(self)), self.eps)

(* The number of reductions that take the rate lr to a stable value.       *)
RECURSIVE Commits(_, _)
Commits(lr, a) ==
    LET cand == RMax(RMul(lr, a.decay_rate), a.min_lr) IN
    IF RLe(RSub(lr, cand), a.eps) THEN 0 ELSE 1 + Commits(cand, a)

(* The call by which the rate of a scheduler built with a is stable: the   *)
(* first reduction event is at call patience + 2, each later one           *)
(* cooldown + patience + 1 calls after the one before.                     *)
SettleBy(a) ==
    LET n == Commits(a.learning_rate.v, a) IN
    IF n = 0 THEN 0
    ELSE a.patience + 2 + (n - 1) * (a.cooldown + a.patience + 1)

(* The number of reduction events among the first n calls of such a run.   *)
EventsBy(a, n) ==
    IF n < a.patience + 2 THEN 0
    ELSE (n - a.patience - 2) \div (a.cooldown + a.patience + 1) + 1

(* C23: with 0 <= decay_rate < 1, eps > 0 and learning_rate >= min_lr at   *)
(* construction, a run of step(loss) calls whose losses never improve on   *)
(* best_loss brings learning_rate, within a number of calls fixed by the   *)
(* arguments, to a value with learning_rate - max(learning_rate *          *)
(* decay_rate, min_lr) <= eps; no call changes it from then on; and        *)
(* reduction events go on all along the run, one every                     *)
(* cooldown + patience + 1 calls.                                          *)
C23_RateSettles ==
    /\ []((IsPlateau /\ Settling(ctor.args)
           /\ sched.epoch_num >= SettleBy(ctor.args)) => Stable(sched))
    /\ [][(IsPlateau /\ Settling(ctor.args) /\ Stable(sched)) =>
            sched'.learning_rate.v = sched.learning_rate.v]_vars
    /\ [](IsPlateau =>
            Len(events) = EventsBy(ctor.args, sched.epoch_num))

(* With eps = 1/8 the rate went 1, 1/2, 1/4 in two reductions, and a third *)
(* reduction event has left it at 1/4.                                     *)
C23_Witness ==
    /\ IsPlateau
    /\ op.name = "step"
    /\ op.reduced
    /\ ctor.args.eps = Eighth
    /\ ctor.args.min_lr = Zero
    /\ sched.learning_rate.v = Quarter
    /\ Len(events) = 3

====
